---- MODULE Spec2Model ----
(***************************************************************************)
(* Model of fhnw.nlp.utils: the text normalisation functions of            *)
(* normalize.py (tokenize, tokenize_stem, tokenize_lemma, normalize,       *)
(* normalize_df) and the save-or-show tail of the plotting helpers of      *)
(* ploting.py.                                                             *)
(*                                                                         *)
(* A Python str is a sequence of one-character strings; a token is a str.  *)
(* A Python value is a record [kind, chars, items]: kind "str" carries     *)
(* chars, kind "iter" (a list of tokens) carries items, the kinds "int"    *)
(* and "none" carry nothing.                                               *)
(***************************************************************************)
EXTENDS Integers, Sequences, FiniteSets, TLC

\* ------------------------------------------------------------------ bounds

MaxStrLen == 3      \* longest raw string handed to a function
MaxTokens == 2      \* longest token list handed to a function
MaxRows == 2        \* most rows of a dataframe column
MaxDocTokens == 3   \* most tokens of an annotated document (NER merge)
MaxEnts == 2        \* most entity spans of an annotated document
MaxCalls == 3       \* most plotting calls in one session

\* ------------------------------------------------------------ Python values

NoneVal == [kind |-> "none", chars |-> <<>>, items |-> <<>>]
IntVal == [kind |-> "int", chars |-> <<>>, items |-> <<>>]
Str(c) == [kind |-> "str", chars |-> c, items |-> <<>>]
Iter(ws) == [kind |-> "iter", chars |-> <<>>, items |-> ws]

SeqsUpTo(S, n) == UNION {[1..k -> S] : k \in 0..n}

Chars == {"a", "A", "s", " ", "."}
Vocab == {<<"a">>, <<"A">>, <<"A", "s">>, <<".">>}
StopUniverse == {<<"a">>, <<"s">>}
StopwordSets == SUBSET StopUniverse

Strings == {Str(c) : c \in SeqsUpTo(Chars, MaxStrLen)}
TokenLists == {Iter(ws) : ws \in SeqsUpTo(Vocab, MaxTokens)}
NonText == {IntVal, NoneVal}
Texts == Strings \cup TokenLists \cup NonText

\* str.lower()
\* str.swapcase() in place of str.lower()
SwapCaseChar(c) ==
    CASE c = "A" -> "a" [] c = "a" -> "A" [] OTHER -> c
LowerChar(c) ==
    CASE c = "A" -> "a" [] OTHER -> c
Lower(w) == [i \in DOMAIN w |-> LowerChar(w[i])]

\* isinstance(x, str) and is_iterable(x)
IsStr(x) == x.kind = "str"
IsIterable(x) == x.kind \in {"str", "iter"}

\* nltk's word_tokenize: whitespace separates tokens, a punctuation mark is a
\* token of its own.
RECURSIVE WordTokenizeFrom(_, _, _)
WordTokenizeFrom(c, i, cur) ==
    LET flush == IF cur = <<>> THEN <<>> ELSE <<cur>>
    IN  IF i > Len(c) THEN flush
        ELSE IF c[i] = " " THEN flush \o WordTokenizeFrom(c, i + 1, <<>>)
        ELSE IF c[i] = "." THEN flush \o <<(<<".">>)>> \o WordTokenizeFrom(c, i + 1, <<>>)
        ELSE WordTokenizeFrom(c, i + 1, Append(cur, c[i]))
WordTokenize(c) == WordTokenizeFrom(c, 1, <<>>)

\* The caller's stemmer: None, or a suffix stripper (stem drops a final "s").
NoStemmer == "None"
Stemmers == {"strip"}
Stem(st, w) ==
    IF Len(w) > 1 /\ w[Len(w)] = "s" THEN SubSeq(w, 1, Len(w) - 1) ELSE w

\* What a call yields: the list returned or the exception raised, with the
\* number of calls made to the stemmer and to the annotation pipeline and the
\* functions entered.
Returned(out, nstem, nlem, path) ==
    [status |-> "ok", out |-> out, stem_calls |-> nstem, lemma_calls |-> nlem,
     path |-> path]
Raised(path) ==
    [status |-> "TypeError", out |-> <<>>, stem_calls |-> 0, lemma_calls |-> 0,
     path |-> path]

\* the condition of the comprehensions of tokenize and tokenize_stem
\* the membership test on the word as given, not lowercased
NotStopwordRaw(word, stopwords) == word \notin stopwords
NotStopword(word, stopwords) == Lower(word) \notin stopwords

\* [word.lower() for word in word_tokens if word.lower() not in stopwords]
RECURSIVE LowerKept(_, _)
LowerKept(word_tokens, stopwords) ==
    IF word_tokens = <<>> THEN <<>>
    ELSE (IF NotStopword(Head(word_tokens), stopwords)
          THEN <<Lower(Head(word_tokens))>> ELSE <<>>)
         \o LowerKept(Tail(word_tokens), stopwords)

tokenize(text, stopwords) ==
    IF IsStr(text)
    THEN Returned(LowerKept(WordTokenize(text.chars), stopwords), 0, 0, <<"tokenize">>)
    ELSE IF IsIterable(text)
    THEN Returned(LowerKept(text.items, stopwords), 0, 0, <<"tokenize">>)
    ELSE Raised(<<"tokenize">>)

\* the comprehension of tokenize_stem with the membership test on the stem
RECURSIVE StemKeptOnStem(_, _, _)
StemKeptOnStem(word_tokens, stopwords, stemmer) ==
    IF word_tokens = <<>> THEN <<>>
    ELSE (IF Stem(stemmer, Lower(Head(word_tokens))) \notin stopwords
          THEN <<Stem(stemmer, Lower(Head(word_tokens)))>> ELSE <<>>)
         \o StemKeptOnStem(Tail(word_tokens), stopwords, stemmer)

\* [stemmer.stem(word.lower()) for word in word_tokens if word.lower() not in stopwords]
RECURSIVE StemKept(_, _, _)
StemKept(word_tokens, stopwords, stemmer) ==
    IF word_tokens = <<>> THEN <<>>
    ELSE (IF NotStopword(Head(word_tokens), stopwords)
          THEN <<Stem(stemmer, Lower(Head(word_tokens)))>> ELSE <<>>)
         \o StemKept(Tail(word_tokens), stopwords, stemmer)

tokenize_stem(text, stopwords, stemmer) ==
    IF IsStr(text)
    THEN LET out == StemKept(WordTokenize(text.chars), stopwords, stemmer)
         IN  Returned(out, Len(out), 0, <<"tokenize_stem">>)
    ELSE IF IsIterable(text)
    THEN LET out == StemKept(text.items, stopwords, stemmer)
         IN  Returned(out, Len(out), 0, <<"tokenize_stem">>)
    ELSE Raised(<<"tokenize_stem">>)

\* ------------------------------------------------------ annotated documents

\* A spaCy Doc: toks, each with idx (its character offset), text, lemma_,
\* is_alpha and is_punct, and ents, each with start_char, end_char and lemma_.
\* The tokens of a document are separated by one blank; an entity is a span of
\* tokens, its lemma the lemmas of its tokens joined by blanks.
TokenTypes ==
    { [text |-> <<"A", "s">>, lemma_ |-> <<"A">>, is_alpha |-> TRUE, is_punct |-> FALSE],
      [text |-> <<"s">>, lemma_ |-> <<"s">>, is_alpha |-> TRUE, is_punct |-> FALSE],
      [text |-> <<".">>, lemma_ |-> <<".">>, is_alpha |-> FALSE, is_punct |-> TRUE] }

\* the stopword sets of the merge: none, or the lemma of the first token type
MergeStopwordSets == {{}, {<<"a">>}}

RECURSIVE OffsetOf(_, _)
OffsetOf(types, k) ==
    IF k = 1 THEN 0 ELSE OffsetOf(types, k - 1) + Len(types[k - 1].text) + 1

RECURSIVE JoinLemmas(_, _, _)
JoinLemmas(types, i, j) ==
    IF i >= j THEN <<>>
    ELSE IF i + 1 = j THEN types[i].lemma_
    ELSE types[i].lemma_ \o <<" ">> \o JoinLemmas(types, i + 1, j)

\* the entity over the tokens i .. j-1 (1-based)
EntSpan(types, i, j) ==
    [start_char |-> OffsetOf(types, i),
     end_char |-> OffsetOf(types, j - 1) + Len(types[j - 1].text),
     lemma_ |-> JoinLemmas(types, i, j),
     first |-> i, last |-> j - 1]

MkDoc(types, ranges) ==
    [toks |-> [k \in DOMAIN types |->
                 [idx |-> OffsetOf(types, k), text |-> types[k].text,
                  lemma_ |-> types[k].lemma_, is_alpha |-> types[k].is_alpha,
                  is_punct |-> types[k].is_punct]],
     ents |-> [n \in DOMAIN ranges |-> EntSpan(types, ranges[n][1], ranges[n][2])]]

Ranges(n) == {<<i, j>> \in (1..n) \X (2..(n + 1)) : i < j}

\* Python's seq[i] for i >= 0: the element, or IndexError
InRange(seq, i) == i >= 0 /\ i < Len(seq)
NoToken == [idx |-> -1, text |-> <<>>, lemma_ |-> <<>>, is_alpha |-> FALSE, is_punct |-> FALSE]
NoEnt == [start_char |-> -1, end_char |-> -1, lemma_ |-> <<>>, first |-> 0, last |-> 0]
TokAt(doc, i) == IF InRange(doc.toks, i) THEN doc.toks[i + 1] ELSE NoToken
EntAt(doc, n) == IF InRange(doc.ents, n) THEN doc.ents[n + 1] ELSE NoEnt

\* line 99 and line 117: the token-level filter
PassesFilter(tok, stopwords) ==
    /\ tok.is_alpha
    /\ ~tok.is_punct
    /\ Lower(tok.text) \notin stopwords
    /\ Lower(tok.lemma_) \notin stopwords

\* line 98 with <= for <
TakesTokenOrEqual(doc, tok_idx, ner_idx) ==
    \/ ner_idx >= Len(doc.ents)
    \/ TokAt(doc, tok_idx).idx <= EntAt(doc, ner_idx).start_char

\* line 98: the token at the cursor is treated on its own
TakesToken(doc, tok_idx, ner_idx) ==
    \/ ner_idx >= Len(doc.ents)
    \/ TokAt(doc, tok_idx).idx < EntAt(doc, ner_idx).start_char

\* lines 109-110 with the span's start for its end
RECURSIVE SkipToStart(_, _, _)
SkipToStart(doc, tok_idx, ner_idx) ==
    IF tok_idx < Len(doc.toks) /\ TokAt(doc, tok_idx).idx < EntAt(doc, ner_idx).start_char
    THEN SkipToStart(doc, tok_idx + 1, ner_idx)
    ELSE tok_idx

\* lines 109-110: the cursor after the tokens that start before the span's end
RECURSIVE SkipSpan(_, _, _)
SkipSpan(doc, tok_idx, ner_idx) ==
    IF tok_idx < Len(doc.toks) /\ TokAt(doc, tok_idx).idx < EntAt(doc, ner_idx).end_char
    THEN SkipSpan(doc, tok_idx + 1, ner_idx)
    ELSE tok_idx

\* The indices the iteration at (tok_idx, ner_idx) reads that lie outside
\* their sequence: line 98 reads doc[tok_idx] and doc.ents[ner_idx] unless
\* ner_idx >= len(doc.ents); the else branch reads doc.ents[ner_idx] and the
\* tokens the inner loop tests.
BadReads(doc, tok_idx, ner_idx) ==
    LET cond == IF ner_idx >= Len(doc.ents) THEN {}
                ELSE {<<"tok", tok_idx>>, <<"ent", ner_idx>>}
        body == IF TakesToken(doc, tok_idx, ner_idx) THEN {<<"tok", tok_idx>>}
                ELSE {<<"ent", ner_idx>>}
                     \cup {<<"tok", t>> : t \in (tok_idx + 1)..(SkipSpan(doc, tok_idx + 1, ner_idx) - 1)}
                     \cup (IF SkipSpan(doc, tok_idx + 1, ner_idx) < Len(doc.toks)
                           THEN {<<"tok", SkipSpan(doc, tok_idx + 1, ner_idx)>>} ELSE {})
    IN  {r \in cond \cup body :
           \/ r[1] = "tok" /\ ~InRange(doc.toks, r[2])
           \/ r[1] = "ent" /\ ~InRange(doc.ents, r[2])}

\* the iteration without line 108: the else branch leaves the cursor to the
\* inner loop alone
MergeIterNoAdvance(doc, stopwords, L) ==
    IF TakesToken(doc, L.tok_idx, L.ner_idx)
    THEN LET keep == PassesFilter(TokAt(doc, L.tok_idx), stopwords)
         IN  [tok_idx |-> L.tok_idx + 1,
              ner_idx |-> L.ner_idx,
              tokens |-> IF keep THEN Append(L.tokens, Lower(TokAt(doc, L.tok_idx).lemma_))
                         ELSE L.tokens,
              steps |-> Append(L.steps, [kind |-> "tok", tok |-> L.tok_idx,
                                         ner |-> L.ner_idx, emitted |-> keep,
                                         bad |-> BadReads(doc, L.tok_idx, L.ner_idx)])]
    ELSE [tok_idx |-> SkipSpan(doc, L.tok_idx, L.ner_idx),
          ner_idx |-> L.ner_idx + 1,
          tokens |-> Append(L.tokens, Lower(EntAt(doc, L.ner_idx).lemma_)),
          steps |-> Append(L.steps, [kind |-> "ent", tok |-> L.tok_idx,
                                     ner |-> L.ner_idx, emitted |-> TRUE,
                                     bad |-> BadReads(doc, L.tok_idx, L.ner_idx)])]

\* One iteration of the while loop of lines 97-112 on the loop state
\* L = [tok_idx, ner_idx, tokens, steps]; steps logs what each iteration did.
MergeIter(doc, stopwords, L) ==
    IF TakesToken(doc, L.tok_idx, L.ner_idx)
    THEN LET keep == PassesFilter(TokAt(doc, L.tok_idx), stopwords)
         IN  [tok_idx |-> L.tok_idx + 1,
              ner_idx |-> L.ner_idx,
              tokens |-> IF keep THEN Append(L.tokens, Lower(TokAt(doc, L.tok_idx).lemma_))
                         ELSE L.tokens,
              steps |-> Append(L.steps, [kind |-> "tok", tok |-> L.tok_idx,
                                         ner |-> L.ner_idx, emitted |-> keep,
                                         bad |-> BadReads(doc, L.tok_idx, L.ner_idx)])]
    ELSE [tok_idx |-> SkipSpan(doc, L.tok_idx + 1, L.ner_idx),
          ner_idx |-> L.ner_idx + 1,
          tokens |-> Append(L.tokens, Lower(EntAt(doc, L.ner_idx).lemma_)),
          steps |-> Append(L.steps, [kind |-> "ent", tok |-> L.tok_idx,
                                     ner |-> L.ner_idx, emitted |-> TRUE,
                                     bad |-> BadReads(doc, L.tok_idx, L.ner_idx)])]

\* lines 92-94
LoopStart == [tok_idx |-> 0, ner_idx |-> 0, tokens |-> <<>>, steps |-> <<>>]

\* line 97
LoopRuns(doc, L) == L.tok_idx < Len(doc.toks)

RECURSIVE MergeRun(_, _, _)
MergeRun(doc, stopwords, L) ==
    IF LoopRuns(doc, L) THEN MergeRun(doc, stopwords, MergeIter(doc, stopwords, L))
    ELSE L

\* line 117
RECURSIVE LemmaKept(_, _)
LemmaKept(toks, stopwords) ==
    IF toks = <<>> THEN <<>>
    ELSE (IF PassesFilter(Head(toks), stopwords)
          THEN <<Lower(Head(toks).lemma_)>> ELSE <<>>)
         \o LemmaKept(Tail(toks), stopwords)

\* join_tokens(text, set()): the tokens joined by blanks
RECURSIVE JoinTokens(_)
JoinTokens(ws) ==
    IF ws = <<>> THEN <<>>
    ELSE IF Len(ws) = 1 THEN ws[1]
    ELSE ws[1] \o <<" ">> \o JoinTokens(Tail(ws))

\* The caller's pipeline: None, or a pipeline given by the document it yields.
\* With the ner component disabled (line 116) the document has no entities.
NoLemmanizer == [toks |-> <<"None">>, ents |-> <<>>]
Annotate(lemmanizer, chars, with_ner) ==
    IF with_ner THEN lemmanizer ELSE [lemmanizer EXCEPT !.ents = <<>>]

\* lines 87-117: the body of tokenize_lemma once text is a str
LemmaTokens(chars, stopwords, lemmanizer, keep_ners) ==
    IF keep_ners
    THEN MergeRun(Annotate(lemmanizer, chars, TRUE), stopwords, LoopStart).tokens
    ELSE LemmaKept(Annotate(lemmanizer, chars, FALSE).toks, stopwords)

\* tokenize_lemma with the pipeline run before the kind of text is looked at
tokenize_lemma_eager(text, stopwords, lemmanizer, keep_ners) ==
    IF IsStr(text)
    THEN Returned(LemmaTokens(text.chars, stopwords, lemmanizer, keep_ners),
                  0, 1, <<"tokenize_lemma">>)
    ELSE IF IsIterable(text)
    THEN Returned(LemmaTokens(JoinTokens(text.items), stopwords, lemmanizer, keep_ners),
                  0, 1, <<"tokenize_lemma">>)
    ELSE [Raised(<<"tokenize_lemma">>) EXCEPT !.lemma_calls = 1]

tokenize_lemma(text, stopwords, lemmanizer, keep_ners) ==
    IF IsStr(text)
    THEN Returned(LemmaTokens(text.chars, stopwords, lemmanizer, keep_ners),
                  0, 1, <<"tokenize_lemma">>)
    ELSE IF IsIterable(text)
    THEN Returned(LemmaTokens(JoinTokens(text.items), stopwords, lemmanizer, keep_ners),
                  0, 1, <<"tokenize_lemma">>)
    ELSE Raised(<<"tokenize_lemma">>)

\* normalize with the stemmer looked at before the lemmatizer
normalize_stem_first(text, stopwords, stemmer, lemmanizer, lemma_with_ner) ==
    LET r == IF stemmer # NoStemmer
             THEN tokenize_stem(text, stopwords, stemmer)
             ELSE IF lemmanizer # NoLemmanizer
             THEN tokenize_lemma(text, stopwords, lemmanizer, lemma_with_ner)
             ELSE tokenize(text, stopwords)
    IN  [r EXCEPT !.path = <<"normalize">> \o @]

\* lines 142-147
normalize(text, stopwords, stemmer, lemmanizer, lemma_with_ner) ==
    LET r == IF lemmanizer # NoLemmanizer
             THEN tokenize_lemma(text, stopwords, lemmanizer, lemma_with_ner)
             ELSE IF stemmer # NoStemmer
             THEN tokenize_stem(text, stopwords, stemmer)
             ELSE tokenize(text, stopwords)
    IN  [r EXCEPT !.path = <<"normalize">> \o @]

\* the lambda without its isinstance/is_iterable guard
NormalizeRowUnguarded(x, stopwords, stemmer, lemmanizer, lemma_with_ner) ==
    normalize(x, stopwords, stemmer, lemmanizer, lemma_with_ner)

\* lines 176-178: the lambda mapped over the column
NormalizeRow(x, stopwords, stemmer, lemmanizer, lemma_with_ner) ==
    IF IsStr(x) \/ IsIterable(x)
    THEN normalize(x, stopwords, stemmer, lemmanizer, lemma_with_ner)
    ELSE Returned(<<>>, 0, 0, <<>>)

\* ------------------------------------------------------------- ploting.py

\* filename=None, or a path
NoFile == "None"
Filenames == {"a.png", "b.png"}
SaveDpi == 300

Show(call) == [call |-> call, kind |-> "show", path |-> NoFile, dpi |-> 0]
SaveFig(call, filename) == [call |-> call, kind |-> "savefig", path |-> filename, dpi |-> SaveDpi]

\* if filename is not None: plt.savefig(filename, dpi=300) else: plt.show()
SaveOrShow(call, filename) ==
    IF filename # NoFile THEN <<SaveFig(call, filename)>> ELSE <<Show(call)>>

\* plot_history, lines 228-242: plt.show() after the accuracy plot, then the
\* loss plot saved or shown
HistoryEvents(call, filename) == <<Show(call)>> \o SaveOrShow(call, filename)

\* -------------------------------------------------------------- the inputs

\* the pipelines a caller passes to normalize: each yields a document
Pipelines ==
    LET As == [text |-> <<"A", "s">>, lemma_ |-> <<"A">>, is_alpha |-> TRUE, is_punct |-> FALSE]
        s == [text |-> <<"s">>, lemma_ |-> <<"s">>, is_alpha |-> TRUE, is_punct |-> FALSE]
        dot == [text |-> <<".">>, lemma_ |-> <<".">>, is_alpha |-> FALSE, is_punct |-> TRUE]
    IN  {MkDoc(<<As, s>>, <<>>), MkDoc(<<s, As, dot>>, << <<2, 4>> >>)}

\* the values of a dataframe column
RowValues ==
    {Str(<<"A", " ", "s">>), Str(<<"s", ".">>), Iter(<<(<<"A">>), <<"A", "s">>>>),
     IntVal, NoneVal}
Columns == SeqsUpTo(RowValues, MaxRows)

NoArgs ==
    [text |-> NoneVal, stopwords |-> {}, stemmer |-> NoStemmer,
     lemmanizer |-> NoLemmanizer, keep_ners |-> FALSE]
NoResult == Returned(<<>>, 0, 0, <<>>)

\* ------------------------------------------------------------------- state

VARIABLES
    pc,       \* where the caller of normalize.py is
    fn,       \* the function called
    args,     \* its arguments
    res,      \* what the call yielded
    again,    \* what normalize yielded on res.out (NormalizeAgain)
    column,   \* df[field_read]
    series,   \* the rows mapped so far
    npc,      \* where tokenize_lemma's NER merge is
    doc,      \* the annotated document
    nstop,    \* the stopwords of the merge
    loop,     \* tok_idx, ner_idx, tokens and the log of the iterations
    calls,    \* the plotting helpers called so far, each with its filename
    events    \* what pyplot was asked to show or save, each with its call

nvars == <<npc, doc, nstop, loop>>
svars == <<pc, fn, args, res, again, column, series>>
pvars == <<calls, events>>
vars == <<pc, fn, args, res, again, column, series, npc, doc, nstop, loop, calls, events>>

EmptyDoc == [toks |-> <<>>, ents |-> <<>>]

Init ==
    /\ pc = "idle" /\ fn = "" /\ args = NoArgs /\ res = NoResult /\ again = NoResult
    /\ column = <<>> /\ series = <<>>
    /\ npc = "idle" /\ doc = EmptyDoc /\ nstop = {} /\ loop = LoopStart
    /\ calls = <<>> /\ events = <<>>

\* ------------------------------------------------ the calls into normalize.py

CallTokenize ==
    /\ pc = "idle"
    /\ \E text \in Texts, stopwords \in StopwordSets :
          /\ args' = [NoArgs EXCEPT !.text = text, !.stopwords = stopwords]
          /\ res' = tokenize(text, stopwords)
    /\ fn' = "tokenize"
    /\ pc' = "returned"
    /\ UNCHANGED <<again, column, series>>
    /\ UNCHANGED <<nvars, pvars>>

CallTokenizeStem ==
    /\ pc = "idle"
    /\ \E text \in Texts, stopwords \in StopwordSets, stemmer \in Stemmers :
          /\ args' = [NoArgs EXCEPT !.text = text, !.stopwords = stopwords,
                                    !.stemmer = stemmer]
          /\ res' = tokenize_stem(text, stopwords, stemmer)
    /\ fn' = "tokenize_stem"
    /\ pc' = "returned"
    /\ UNCHANGED <<again, column, series>>
    /\ UNCHANGED <<nvars, pvars>>

CallTokenizeLemma ==
    /\ pc = "idle"
    /\ \E text \in Texts, stopwords \in StopwordSets, lemmanizer \in Pipelines,
          keep_ners \in BOOLEAN :
          /\ args' = [NoArgs EXCEPT !.text = text, !.stopwords = stopwords,
                                    !.lemmanizer = lemmanizer, !.keep_ners = keep_ners]
          /\ res' = tokenize_lemma(text, stopwords, lemmanizer, keep_ners)
    /\ fn' = "tokenize_lemma"
    /\ pc' = "returned"
    /\ UNCHANGED <<again, column, series>>
    /\ UNCHANGED <<nvars, pvars>>

CallNormalize ==
    /\ pc = "idle"
    /\ \E text \in Texts, stopwords \in StopwordSets,
          stemmer \in Stemmers \cup {NoStemmer},
          lemmanizer \in Pipelines \cup {NoLemmanizer}, lemma_with_ner \in BOOLEAN :
          /\ args' = [text |-> text, stopwords |-> stopwords, stemmer |-> stemmer,
                      lemmanizer |-> lemmanizer, keep_ners |-> lemma_with_ner]
          /\ res' = normalize(text, stopwords, stemmer, lemmanizer, lemma_with_ner)
    /\ fn' = "normalize"
    /\ pc' = "returned"
    /\ UNCHANGED <<again, column, series>>
    /\ UNCHANGED <<nvars, pvars>>

\* normalize on the list a plain normalize returned, with no stopwords
NormalizeAgain ==
    /\ pc = "returned" /\ fn = "normalize" /\ res.status = "ok"
    /\ args.stemmer = NoStemmer /\ args.lemmanizer = NoLemmanizer
    /\ again' = normalize(Iter(res.out), {}, NoStemmer, NoLemmanizer, FALSE)
    /\ pc' = "renormalized"
    /\ UNCHANGED <<fn, args, res, column, series>>
    /\ UNCHANGED <<nvars, pvars>>

\* normalize_df: df[field_read] is read
CallNormalizeDf ==
    /\ pc = "idle"
    /\ \E col \in Columns, stopwords \in StopwordSets,
          stemmer \in Stemmers \cup {NoStemmer},
          lemmanizer \in Pipelines \cup {NoLemmanizer}, lemma_with_ner \in BOOLEAN :
          /\ column' = col
          /\ args' = [text |-> NoneVal, stopwords |-> stopwords, stemmer |-> stemmer,
                      lemmanizer |-> lemmanizer, keep_ners |-> lemma_with_ner]
    /\ fn' = "normalize_df"
    /\ series' = <<>>
    /\ pc' = "mapping"
    /\ UNCHANGED <<res, again>>
    /\ UNCHANGED <<nvars, pvars>>

\* Series.map: the lambda on the next row; an exception ends the map
MapRow ==
    /\ pc = "mapping" /\ Len(series) < Len(column)
    /\ LET r == NormalizeRow(column[Len(series) + 1], args.stopwords, args.stemmer,
                             args.lemmanizer, args.keep_ners)
       IN  IF r.status = "ok"
           THEN /\ series' = Append(series, r.out)
                /\ UNCHANGED <<pc, res>>
           ELSE /\ res' = r
                /\ pc' = "raised"
                /\ UNCHANGED series
    /\ UNCHANGED <<fn, args, again, column>>
    /\ UNCHANGED <<nvars, pvars>>

\* line 180: series.to_frame(field_write)
ToFrame ==
    /\ pc = "mapping" /\ Len(series) = Len(column)
    /\ pc' = "returned"
    /\ UNCHANGED <<fn, args, res, again, column, series>>
    /\ UNCHANGED <<nvars, pvars>>

Next ==
    \/ CallTokenize
    \/ CallTokenizeStem
    \/ CallTokenizeLemma
    \/ CallNormalize
    \/ NormalizeAgain
    \/ CallNormalizeDf
    \/ MapRow
    \/ ToFrame

Spec == Init /\ [][Next]_vars

\* ------------------------------------------------- properties of normalize.py

IsText(x) == x.kind \in {"str", "iter"}
InputTokens(text) == IF text.kind = "str" THEN WordTokenize(text.chars) ELSE text.items
\* the positions of the tokens that are no stopword once lowercased, and the
\* place of such a position among them
KeptIdx(ws, S) == {i \in DOMAIN ws : Lower(ws[i]) \notin S}
Rank(K, i) == Cardinality({j \in K : j <= i})

\* C1: tokenize(text, S) on a string or token sequence returns no element whose
\* lowercased form is in S, every element is its own lowercased form, and the
\* elements are the lowercased non-stopword input tokens in their order.
C1_TokenizeFiltersAndLowers ==
    (pc = "returned" /\ fn = "tokenize" /\ IsText(args.text)) =>
        LET ws == InputTokens(args.text)
            S == args.stopwords
            K == KeptIdx(ws, S)
        IN  /\ res.status = "ok"
            /\ \A i \in DOMAIN res.out :
                  Lower(res.out[i]) \notin S /\ res.out[i] = Lower(res.out[i])
            /\ Len(res.out) = Cardinality(K)
            /\ \A i \in K : res.out[Rank(K, i)] = Lower(ws[i])

\* a stopword was dropped and a token with a capital was kept, lowercased
C1_Witness ==
    /\ pc = "returned" /\ fn = "tokenize" /\ IsText(args.text)
    /\ LET ws == InputTokens(args.text)
       IN  /\ \E i \in DOMAIN ws : Lower(ws[i]) \in args.stopwords /\ ws[i] # Lower(ws[i])
           /\ \E i \in DOMAIN ws : Lower(ws[i]) \notin args.stopwords /\ ws[i] # Lower(ws[i])
    /\ res.out # <<>>

\* C3: normalize_df returns as many rows as the column has, in its order; a row
\* that is neither a string nor iterable is the empty list, every other row is
\* normalize() of its value; a non-text row raises nothing and ends nothing.
C3_BatchRows ==
    (fn = "normalize_df") =>
        /\ pc # "raised"
        /\ Len(series) <= Len(column)
        /\ pc = "returned" => Len(series) = Len(column)
        /\ \A i \in DOMAIN series :
              IF IsText(column[i])
              THEN LET r == normalize(column[i], args.stopwords, args.stemmer,
                                      args.lemmanizer, args.keep_ners)
                   IN  r.status = "ok" /\ series[i] = r.out
              ELSE series[i] = <<>>

\* a returned column with a non-text row before a text row of some tokens
C3_Witness ==
    /\ fn = "normalize_df" /\ pc = "returned"
    /\ \E i, j \in DOMAIN series :
          i < j /\ ~IsText(column[i]) /\ IsText(column[j]) /\ series[j] # <<>>

\* C4: tokenize, tokenize_stem, tokenize_lemma and normalize on each of its
\* paths raise TypeError when text is neither a string nor iterable, before
\* the stemmer or the pipeline is called, and return no list.
C4_NonTextRaises ==
    (/\ pc = "returned"
     /\ fn \in {"tokenize", "tokenize_stem", "tokenize_lemma", "normalize"}
     /\ ~IsText(args.text)) =>
        /\ res.status = "TypeError"
        /\ res.stem_calls = 0
        /\ res.lemma_calls = 0
        /\ res.out = <<>>

\* normalize was given a lemmatizer and a number, and raised
C4_Witness ==
    /\ pc = "returned" /\ fn = "normalize"
    /\ args.lemmanizer # NoLemmanizer /\ args.text = IntVal
    /\ res.status = "TypeError"

\* C5: normalize enters exactly one of the three functions: tokenize_lemma when
\* a lemmatizer is given (the stemmer is then never called), tokenize_stem
\* when only a stemmer is given, tokenize otherwise; and yields what it yields.
C5_DispatchOnePath ==
    (pc = "returned" /\ fn = "normalize") =>
        LET lem == args.lemmanizer # NoLemmanizer
            stm == args.stemmer # NoStemmer
        IN  /\ Len(res.path) = 2
            /\ res.path[2] = (IF lem THEN "tokenize_lemma"
                              ELSE IF stm THEN "tokenize_stem" ELSE "tokenize")
            /\ lem => res.stem_calls = 0
            /\ ~lem => res.lemma_calls = 0
            /\ lem => /\ res.out = tokenize_lemma(args.text, args.stopwords,
                                                   args.lemmanizer, args.keep_ners).out
                      /\ res.status = tokenize_lemma(args.text, args.stopwords,
                                                      args.lemmanizer, args.keep_ners).status
            /\ (~lem /\ stm) =>
                  /\ res.out = tokenize_stem(args.text, args.stopwords, args.stemmer).out
                  /\ res.status = tokenize_stem(args.text, args.stopwords, args.stemmer).status
            /\ (~lem /\ ~stm) =>
                  /\ res.out = tokenize(args.text, args.stopwords).out
                  /\ res.status = tokenize(args.text, args.stopwords).status

\* a lemmatizer and a stemmer were both given and some lemma came back
C5_Witness ==
    /\ pc = "returned" /\ fn = "normalize"
    /\ args.lemmanizer # NoLemmanizer /\ args.stemmer # NoStemmer
    /\ res.status = "ok" /\ res.out # <<>>

\* C6: tokenize_stem returns stem(lowercase(w)) for each input token w whose
\* lowercased form is not in S, in order: as many elements as tokenize returns,
\* whether or not a stem is in S.
C6_StemAfterFilter ==
    (pc = "returned" /\ fn = "tokenize_stem" /\ IsText(args.text)) =>
        LET ws == InputTokens(args.text)
            S == args.stopwords
            K == KeptIdx(ws, S)
        IN  /\ res.status = "ok"
            /\ Len(res.out) = Cardinality(K)
            /\ \A i \in K : res.out[Rank(K, i)] = Stem(args.stemmer, Lower(ws[i]))
            /\ Len(res.out) = Len(tokenize(args.text, S).out)

\* a token was kept whose stem is a stopword
C6_Witness ==
    /\ pc = "returned" /\ fn = "tokenize_stem" /\ IsText(args.text)
    /\ \E i \in DOMAIN res.out : res.out[i] \in args.stopwords

\* C7: normalize with no stemmer, no lemmatizer and no stopwords, on a list that
\* normalize with no stemmer and no lemmatizer returned, returns that list.
C7_Idempotent ==
    (pc = "renormalized") => (again.status = "ok" /\ again.out = res.out)

\* the first call lowercased a capital and dropped a stopword
C7_Witness ==
    /\ pc = "renormalized"
    /\ res.out # <<>>
    /\ Len(res.out) < Len(InputTokens(args.text))
    /\ \E i \in DOMAIN InputTokens(args.text) :
          InputTokens(args.text)[i] # Lower(InputTokens(args.text)[i])
    /\ again.out # <<>>

\* ------------------------------------------------- the calls into ploting.py

\* lines 3-56
PlotGridSearchResults ==
    /\ Len(calls) < MaxCalls
    /\ \E filename \in Filenames \cup {NoFile} :
          /\ calls' = Append(calls, [fn |-> "plot_grid_search_results", filename |-> filename])
          /\ events' = events \o SaveOrShow(Len(calls) + 1, filename)
    /\ UNCHANGED <<svars, nvars>>

\* lines 58-116
PlotConfusionMatrix ==
    /\ Len(calls) < MaxCalls
    /\ \E filename \in Filenames \cup {NoFile} :
          /\ calls' = Append(calls, [fn |-> "plot_confusion_matrix", filename |-> filename])
          /\ events' = events \o SaveOrShow(Len(calls) + 1, filename)
    /\ UNCHANGED <<svars, nvars>>

\* lines 216-242
PlotHistory ==
    /\ Len(calls) < MaxCalls
    /\ \E filename \in Filenames \cup {NoFile} :
          /\ calls' = Append(calls, [fn |-> "plot_history", filename |-> filename])
          /\ events' = events \o HistoryEvents(Len(calls) + 1, filename)
    /\ UNCHANGED <<svars, nvars>>

NextPlot == PlotGridSearchResults \/ PlotConfusionMatrix \/ PlotHistory

SpecPlot == Init /\ [][NextPlot]_vars

\* what call c asked pyplot for
EventsOf(c) == {i \in DOMAIN events : events[i].call = c}

\* C8: a plotting helper called with a filename saves the figure to that path
\* at 300 DPI and shows nothing; called without, it shows the figure and saves
\* nothing.
C8_SaveXorShow ==
    \A c \in DOMAIN calls :
        IF calls[c].filename # NoFile
        THEN /\ \E i \in EventsOf(c) :
                   events[i].kind = "savefig" /\ events[i].path = calls[c].filename
                   /\ events[i].dpi = 300
             /\ \A i \in EventsOf(c) : events[i].kind # "show"
        ELSE /\ \E i \in EventsOf(c) : events[i].kind = "show"
             /\ \A i \in EventsOf(c) : events[i].kind # "savefig"

\* ------------------------------------------ the NER merge, one iteration a step

\* lines 90-94: tokenize_lemma with keep_ners has had the pipeline's document,
\* of at most MaxDocTokens tokens and at most MaxEnts entity spans, the spans
\* in any order, overlapping or not, and stands before the while loop
InitNer ==
    /\ pc = "idle" /\ fn = "" /\ args = NoArgs /\ res = NoResult /\ again = NoResult
    /\ column = <<>> /\ series = <<>>
    /\ calls = <<>> /\ events = <<>>
    /\ \E types \in SeqsUpTo(TokenTypes, MaxDocTokens), stopwords \in MergeStopwordSets :
          \E ranges \in SeqsUpTo(Ranges(Len(types)), MaxEnts) :
             /\ doc = MkDoc(types, ranges)
             /\ nstop = stopwords
    /\ loop = LoopStart
    /\ npc = "loop"

\* lines 97-103
TokenStep ==
    /\ npc = "loop" /\ LoopRuns(doc, loop)
    /\ TakesToken(doc, loop.tok_idx, loop.ner_idx)
    /\ loop' = MergeIter(doc, nstop, loop)
    /\ npc' = IF loop'.steps[Len(loop'.steps)].bad = {} THEN "loop" ELSE "IndexError"
    /\ UNCHANGED <<doc, nstop>>
    /\ UNCHANGED <<svars, pvars>>

\* lines 97-98, 104-112
EntityStep ==
    /\ npc = "loop" /\ LoopRuns(doc, loop)
    /\ ~TakesToken(doc, loop.tok_idx, loop.ner_idx)
    /\ loop' = MergeIter(doc, nstop, loop)
    /\ npc' = IF loop'.steps[Len(loop'.steps)].bad = {} THEN "loop" ELSE "IndexError"
    /\ UNCHANGED <<doc, nstop>>
    /\ UNCHANGED <<svars, pvars>>

\* lines 97, 114
MergeReturn ==
    /\ npc = "loop" /\ ~LoopRuns(doc, loop)
    /\ npc' = "returned"
    /\ UNCHANGED <<doc, nstop, loop>>
    /\ UNCHANGED <<svars, pvars>>

NextNer == TokenStep \/ EntityStep \/ MergeReturn

SpecNer == InitNer /\ [][NextNer]_vars
\* the loop is sequential code: an iteration that can run does run
SpecNerFair == SpecNer /\ WF_vars(NextNer)

\* ------------------------------------------------- properties of the NER merge

\* the entity spans are sorted by start and do not overlap
WellFormed(d) ==
    \A n, m \in DOMAIN d.ents : n < m => d.ents[n].last < d.ents[m].first

EntSteps(n) == {i \in DOMAIN loop.steps : loop.steps[i].kind = "ent" /\ loop.steps[i].ner = n}
\* the tokens (0-based) an iteration treated on their own
TokStepped == {loop.steps[i].tok : i \in {j \in DOMAIN loop.steps : loop.steps[j].kind = "tok"}}
\* the tokens (1-based) some entity span covers
Covered(d) == {k \in DOMAIN d.toks : \E n \in DOMAIN d.ents : d.ents[n].first <= k /\ k <= d.ents[n].last}

\* what the merge is to emit from token k on: at the first token of a span the
\* span's lemma, nothing for its other tokens, else the token's lemma if it
\* passes the filter
RECURSIVE ExpectedFrom(_, _, _)
ExpectedFrom(d, S, k) ==
    IF k > Len(d.toks) THEN <<>>
    ELSE (IF \E n \in DOMAIN d.ents : d.ents[n].first = k
          THEN <<Lower(d.ents[CHOOSE n \in DOMAIN d.ents : d.ents[n].first = k].lemma_)>>
          ELSE IF k \in Covered(d) THEN <<>>
          ELSE IF PassesFilter(d.toks[k], S) THEN <<Lower(d.toks[k].lemma_)>>
          ELSE <<>>)
         \o ExpectedFrom(d, S, k + 1)

\* C2: with one entity span over the tokens [i, j) the output holds one element
\* for the span, its lowercased lemma, and no lemma of a token i..j-1; the
\* tokens outside the span go through the token-level filter.
C2_OneSpanMerged ==
    (npc = "returned" /\ Len(doc.ents) = 1) =>
        LET e == doc.ents[1]
        IN  /\ loop.tokens =
                  LemmaKept(SubSeq(doc.toks, 1, e.first - 1), nstop)
                  \o <<Lower(e.lemma_)>>
                  \o LemmaKept(SubSeq(doc.toks, e.last + 1, Len(doc.toks)), nstop)
            /\ Cardinality(EntSteps(0)) = 1
            /\ \A k \in e.first..e.last : (k - 1) \notin TokStepped

\* one span over two tokens or more, one of which passes the filter, after a
\* token that passes it too
C2_Witness ==
    /\ npc = "returned" /\ Len(doc.ents) = 1
    /\ doc.ents[1].first < doc.ents[1].last
    /\ \E k \in doc.ents[1].first..doc.ents[1].last : PassesFilter(doc.toks[k], nstop)
    /\ \E k \in 1..(doc.ents[1].first - 1) : PassesFilter(doc.toks[k], nstop)

\* C9: with the spans sorted, non-overlapping and each over a token or more,
\* every span is emitted once, as its lowercased lemma and in document order
\* among the token lemmas, stopword or not; and a token is treated on its own
\* exactly when no entity remains or it starts before the current entity.
C9_SpansEmittedInOrder ==
    (npc = "returned" /\ WellFormed(doc)) =>
        /\ loop.tokens = ExpectedFrom(doc, nstop, 1)
        /\ \A n \in DOMAIN doc.ents :
              /\ Cardinality(EntSteps(n - 1)) = 1
              /\ \A i \in EntSteps(n - 1) : loop.steps[i].tok = doc.ents[n].first - 1
        /\ \A i \in DOMAIN loop.steps :
              loop.steps[i].kind = "tok" <=>
                 \/ loop.steps[i].ner >= Len(doc.ents)
                 \/ doc.toks[loop.steps[i].tok + 1].idx
                       < doc.ents[loop.steps[i].ner + 1].start_char
        /\ TokStepped = {k - 1 : k \in DOMAIN doc.toks \ Covered(doc)}

\* two spans, one with a stopword for its lemma, and a token emitted on its own
C9_Witness ==
    /\ npc = "returned" /\ WellFormed(doc) /\ Len(doc.ents) = 2
    /\ \E n \in DOMAIN doc.ents : Lower(doc.ents[n].lemma_) \in nstop
    /\ \E i \in DOMAIN loop.steps : loop.steps[i].kind = "tok" /\ loop.steps[i].emitted

\* the spans are out of order or overlap
Malformed(d) == ~WellFormed(d)

C10_Inv ==
    /\ npc # "IndexError"
    /\ \A i \in DOMAIN loop.steps : loop.steps[i].bad = {}
    /\ loop.ner_idx <= Len(doc.ents)
    /\ loop.tok_idx <= Len(doc.toks)
    /\ Len(loop.tokens) <= Len(loop.steps)
    /\ Len(loop.steps) <= loop.tok_idx
    /\ npc = "returned" => loop.tok_idx = Len(doc.toks)
    /\ (npc = "loop" /\ loop.tok_idx < Len(doc.toks)) => ENABLED (TokenStep \/ EntityStep)

C10_Step ==
    (npc = "loop" /\ loop' # loop) =>
        /\ loop'.tok_idx >= loop.tok_idx + 1
        /\ Len(loop'.tokens) <= Len(loop.tokens) + 1
        /\ Len(loop'.steps) = Len(loop.steps) + 1

\* C10: the merge loop ends for every token sequence and every sequence of
\* entity spans, out of order or overlapping too: an iteration moves the token
\* cursor on by one or more and emits one element at most, the entity cursor
\* stays within the number of spans, no index read lies outside its sequence,
\* the loop ends when the token cursor is the number of tokens, and the output
\* is no longer than the tokens are many.
C10_MergeTerminates ==
    /\ []C10_Inv
    /\ [][C10_Step]_vars
    /\ (npc = "loop") ~> (npc = "returned")

\* a merge over overlapping or unordered spans returned, with fewer elements
\* than tokens
C10_Witness ==
    /\ npc = "returned" /\ Malformed(doc)
    /\ Len(doc.ents) = MaxEnts
    /\ loop.ner_idx = Len(doc.ents)
    /\ Len(loop.tokens) < Len(doc.toks)
====
